---- MODULE Spec2Model ----
(***************************************************************************)
(* A model of the Chart class of ugla-erp/gantt (src/src/index.js): the    *)
(* axis map (buildFormatToColumnMap), the row assignment                   *)
(* (calculateChartHeight), bar processing (processBar), and the public     *)
(* entry points Chart.get, setPeriod, setData and setOptions.              *)
(*                                                                         *)
(* Time is counted in ticks of HoursPerTick hours from an arbitrary UTC    *)
(* midnight inside one calendar year; the chart's timezone is UTC.         *)
(***************************************************************************)
EXTENDS Integers, Sequences, FiniteSets, TLC

\* ------------------------------------------------------------------ bounds

\* Largest tick of the generic bars and period ends (the named example data
\* sets of the repository are added to the inputs as they are).
MaxTime == 3
\* Largest generic period start, in ticks and in index-mode columns.
MaxStart == 1
\* Largest column index of the generic index-mode bars and period ends.
MaxIdx == 3
\* Largest number of bars in a generic data set.
MaxBars == 2
\* Largest tick and index of the periods of the axis-only specification.
MaxAxis == 5
\* Largest column index of the periods and bars of the dragging
\* specification, and of those of the connector specification.
MaxDragIdx == 2
MaxRouteIdx == 2
\* Largest number of bars of the connector specification.
MaxRouteBars == 3
\* The width updateColumnWidth measures for a column, and the largest page
\* position of a pointer event (both in the same unit).
ColumnWidth == 2
MaxPointer == 3
\* Largest number of move notifications of a chart.
MaxMoves == 2
\* Largest number of detours (of two points each) a search of a connector may
\* add to a shortest route.
MaxDetour == 1

\* ------------------------------------------------------- calendar constants

\* The finest preset granularity kept by the model: hours_12 ({ hours: 12 }).
HoursPerTick == 12
TicksPerDay == 24 \div HoursPerTick

\* ----------------------------------------------------------- options

\* heightCoef is counted in tenths: CoefUnit is the number 1, and
\* Chart.BAR_HEIGHT_COEFFICIENT is 0.6.
CoefUnit == 10
BAR_HEIGHT_COEFFICIENT == 6

\* ----------------------------------------------------------- JS values

\* A JavaScript value as far as the chart distinguishes it: its kind and, for
\* a number or a date, the integer it carries.
Undefined == [kind |-> "undefined", val |-> 0]
Num(n) == [kind |-> "number", val |-> n]
\* A string: a date `yyyy-MM-dd HH:mm:ss` / `yyyy-MM-dd` naming tick t (UTC),
\* or, where an index is expected, the digit t.
Str(t) == [kind |-> "string", val |-> t]
\* The number n + 0.5.
Float(n) == [kind |-> "float", val |-> n]
\* A luxon DateTime at tick t.
DateTimeAt(t) == [kind |-> "DateTime", val |-> t]

IsUndefined(v) == v.kind = "undefined"
\* The result of arithmetic on undefined.
NaN == [kind |-> "NaN", val |-> 0]

\* a === b: NaN equals nothing.
StrictEquals(a, b) == a = b /\ a.kind # "NaN"

\* a > b on numbers and digit strings (a string is converted to its number;
\* a comparison with undefined is false).
GreaterThan(a, b) ==
  /\ a.kind \in {"number", "float", "string"}
  /\ b.kind \in {"number", "float", "string"}
  /\ 2 * a.val + (IF a.kind = "float" THEN 1 ELSE 0)
       > 2 * b.val + (IF b.kind = "float" THEN 1 ELSE 0)
\* typeof v ("float" is a number that is not an integer)
TypeOf(v) ==
  IF v.kind = "DateTime" THEN "object"
  ELSE IF v.kind \in {"float", "NaN"} THEN "number"
  ELSE v.kind

\* ----------------------------------------------------------- ChartMode

\* ChartMode.DEFAULTS, the presets the model uses; intervals in ticks.
\* format `dd/MM` keeps the day and drops the time of day (and the year, which
\* is fixed here); format `HH` keeps the hour of the day and drops the day.
ChartModeDEFAULTS ==
  [ days     |-> [index |-> FALSE, interval |-> TicksPerDay, format |-> "dd/MM"],
    hours_12 |-> [index |-> FALSE, interval |-> 12 \div HoursPerTick, format |-> "HH"] ]

\* A ChartMode object for index mode: { index: true, interval: n }.
IndexMode(n) == [index |-> TRUE, interval |-> n, format |-> "index"]

\* DateTime.toFormat(mode.idxFormat ?? mode.format): the axis key of tick t.
ToFormat(t, format) ==
  IF format = "dd/MM" THEN <<"dd/MM", t \div TicksPerDay>>
  ELSE <<"HH", (t % TicksPerDay) * HoursPerTick>>

\* The key under which index mode stores column i (the number itself).
IndexKey(i) == <<"index", i>>

\* ------------------------------------------------------------ the axis

Min(a, b) == IF a < b THEN a ELSE b
Max(a, b) == IF a > b THEN a ELSE b

\* for(let i = this.start; i <= this.end; i += interval): the values of i the
\* body runs for. With interval <= 0 the condition i <= end never becomes
\* false once it is true: the loop does not end (hang).
RECURSIVE ForLoop(_, _, _)
ForLoop(i, end, interval) ==
  IF ~(i <= end) THEN [hang |-> FALSE, visited |-> <<>>]
  ELSE IF interval <= 0 THEN [hang |-> TRUE, visited |-> <<i>>]
  ELSE LET rest == ForLoop(i + interval, end, interval)
       IN [hang |-> rest.hang, visited |-> <<i>> \o rest.visited]

\* Interval.fromDateTimes(start, end).splitBy(duration): the start of every
\* piece. An interval whose end precedes its start is invalid and splits into
\* nothing; piece number idx ends at start.plus(duration * idx), the last one
\* cut at end, so the pieces start at s, s + duration, ... below e.
SplitBy(s, e, duration) ==
  IF ~(s < e) THEN <<>>
  ELSE [idx \in 1..(((e - s) + duration - 1) \div duration) |-> s + duration * (idx - 1)]

\* A Map after the calls set(entries[1][1], entries[1][2]), set(...), ... in
\* order: a later set of the same key replaces the earlier value.
MapFromEntries(entries) ==
  [k \in {entries[j][1] : j \in DOMAIN entries} |->
     LET last == CHOOSE j \in DOMAIN entries :
                   /\ entries[j][1] = k
                   /\ \A j2 \in DOMAIN entries : entries[j2][1] = k => j2 <= j
     IN entries[last][2]]

\* Map.prototype.get
MapGet(map, key) == IF key \in DOMAIN map THEN Num(map[key]) ELSE Undefined

\* The values of i of the index-mode loop over this.start .. this.end (a
\* comparison with undefined is false: no iteration).
IndexLoop(mode, start, end) ==
  IF IsUndefined(start) \/ IsUndefined(end)
  THEN [hang |-> FALSE, visited |-> <<>>]
  ELSE ForLoop(start.val, end.val, mode.interval)

\* The pieces of the calendar axis (an interval of an undefined end or start
\* is invalid, and splits into nothing).
CalendarPieces(mode, start, end) ==
  IF IsUndefined(start) \/ IsUndefined(end) THEN <<>>
  ELSE SplitBy(start.val, end.val, mode.interval)

\* The entries buildFormatToColumnMap sets, in order.
AxisEntries(mode, start, end) ==
  IF mode.index
  THEN LET visited == IndexLoop(mode, start, end).visited
       IN [j \in DOMAIN visited |-> <<IndexKey(visited[j]), visited[j]>>]
  ELSE LET pieces == CalendarPieces(mode, start, end)
       IN [j \in DOMAIN pieces |-> <<ToFormat(pieces[j], mode.format), j - 1>>]

\* Whether the index-mode loop of buildFormatToColumnMap / renderChartTemplate
\* runs forever for this axis.
AxisHangs(mode, start, end) ==
  mode.index /\ IndexLoop(mode, start, end).hang

\* The number of header columns renderChartTemplate creates (columns.length).
ColumnCount(mode, start, end) ==
  IF mode.index THEN Len(IndexLoop(mode, start, end).visited)
  ELSE Len(CalendarPieces(mode, start, end))

\* ------------------------------------------------------- the chart instance

\* A call's outcomes are a set of chart records: one for deterministic code,
\* several where the language leaves the result open. status is how the call
\* in progress has ended so far: "ok", "threw" (an Error left the call) or
\* "hang" (the call never returns).
Then(outcomes, F(_)) ==
  UNION {IF outcome.status = "ok" THEN F(outcome) ELSE {outcome} : outcome \in outcomes}

Throw(c) == {[c EXCEPT !.status = "threw"]}

\* this.pathfindingGrid before the first buildPathfindingGrid.
NoGrid ==
  [built |-> FALSE, copy |-> FALSE, searched |-> FALSE, width |-> 0, height |-> 0, rows |-> <<>>]

\* #movingBarData before the first pointerdown (bar: a position in the data,
\* 0 for null; startX in the units of ColumnWidth).
NotMoving == [pointerIsDown |-> FALSE, bar |-> 0, startX |-> 0, startXBar |-> Num(0)]

\* No move notification has been dispatched (count: the number of move
\* notifications dispatched so far).
NoMove == [bar |-> 0, from |-> <<>>, to |-> <<>>, count |-> 0]

\* new Chart(false): the field initialisers of the class (of this.options
\* the mode and customization.chart.bar.heightCoef), and around them what
\* the page holds of the chart: whether the template of a render is in the
\* container (mounted), the promise of the last render, the work its
\* promise callbacks still have to do (pending), whether the rendered
\* notification of that render was dispatched, whether the bar elements of
\* the page are those of this.data (shown), whether the body holds bar
\* elements at all, of this.data or of an earlier data set (elements), the
\* lines on the canvas, the last move notification dispatched, and the
\* caller's continuation of the promise of the last render() (reaction: the
\* code after an await of it, or a callback of its then()): "none" while the
\* promise is not resolved, "queued" as a job once it is, "ran" after that
\* job.
NewChart ==
  [ mode |-> ChartModeDEFAULTS.days,
    heightCoef |-> Num(BAR_HEIGHT_COEFFICIENT),
    start |-> Undefined,
    end |-> Undefined,
    hasData |-> FALSE,
    data |-> <<>>,
    formatToColumnMap |-> <<>>,
    pathfindingGrid |-> NoGrid,
    chartHeight |-> 0,
    columnsNumber |-> 0,
    columnWidth |-> 0,
    mounted |-> FALSE,
    moving |-> NotMoving,
    status |-> "ok",
    pending |-> "none",
    promise |-> "none",
    notified |-> FALSE,
    shown |-> FALSE,
    elements |-> FALSE,
    reaction |-> "none",
    canvas |-> {},
    lastMove |-> NoMove ]

\* castToDateTime(dt): a number is a time in seconds, a date string is parsed
\* as UTC; anything else is returned as it is.
castToDateTime(dt) ==
  IF TypeOf(dt) = "number" THEN DateTimeAt(dt.val \div (HoursPerTick * 3600))
  ELSE IF dt.kind = "string" THEN DateTimeAt(dt.val)
  ELSE dt

buildFormatToColumnMap(c) ==
  IF AxisHangs(c.mode, c.start, c.end)
  THEN {[c EXCEPT !.status = "hang"]}
  ELSE {[c EXCEPT !.formatToColumnMap = MapFromEntries(AxisEntries(c.mode, c.start, c.end))]}

\* this.formatToColumnMap.get(dt.toFormat(mode.idxFormat ?? mode.format))
ColumnOf(c, dt) == MapGet(c.formatToColumnMap, ToFormat(dt.val, c.mode.format))

\* ------------------------------------------------------ row assignment

\* A comparator that takes its arguments in the other order (a descending sort).
CompareSwapped(a, b, mode) ==
  IF StrictEquals(b.startIDX, a.startIDX)
  THEN IF mode.index THEN 0
       ELSE IF b.start.val = a.start.val THEN 0
       ELSE IF b.start.val > a.start.val THEN -1
       ELSE 1
  ELSE IF GreaterThan(b.startIDX, a.startIDX) THEN 1
  ELSE -1

\* The comparator of calculateChartHeight's toSorted: -1, 0 or 1.
Compare(a, b, mode) ==
  IF StrictEquals(a.startIDX, b.startIDX)
  THEN IF mode.index THEN 0
       ELSE IF a.start.val = b.start.val THEN 0
       ELSE IF a.start.val > b.start.val THEN -1
       ELSE 1
  ELSE IF GreaterThan(a.startIDX, b.startIDX) THEN 1
  ELSE -1

\* a.start.toMillis() on a start that is no DateTime is a TypeError.
CompareThrows(a, b, mode) ==
  /\ StrictEquals(a.startIDX, b.startIDX)
  /\ ~mode.index
  /\ (a.start.kind # "DateTime" \/ b.start.kind # "DateTime")

\* The comparator orders the bars consistently unless it puts each of two
\* bars before the other: a bar without a column (startIDX undefined) and one
\* with a column, or a digit string and the number it names.
ComparatorConsistent(data, mode) ==
  \A i, j \in DOMAIN data :
    i # j => ~(Compare(data[i], data[j], mode) = -1 /\ Compare(data[j], data[i], mode) = -1)

\* A rank that counts only the bars sorted strictly before data[i]: bars the
\* comparator holds equal get the same position.
SortedPositionOfTies(data, mode, i) ==
  Cardinality({j \in DOMAIN data : j # i /\ Compare(data[j], data[i], mode) < 0})

\* toSorted is stable: the position of data[i] in the sorted copy.
SortedPosition(data, mode, i) ==
  Cardinality({j \in DOMAIN data :
     /\ j # i
     /\ \/ Compare(data[j], data[i], mode) < 0
        \/ Compare(data[j], data[i], mode) = 0 /\ j < i})

\* The orders toSorted may return, as the position of each bar: the stable
\* order of a consistent comparator, any order of an inconsistent one.
SortedPositions(data, mode) ==
  IF ComparatorConsistent(data, mode)
  THEN {[i \in DOMAIN data |-> SortedPosition(data, mode, i)]}
  ELSE {[i \in DOMAIN data |-> p[i] - 1] : p \in Permutations(DOMAIN data)}

\* sorted.forEach((bar, idx) => bar.yIndex = idx)
AssignRows(data, position) ==
  [i \in DOMAIN data |-> [data[i] EXCEPT !.yIndex = Num(position[i])]]

\* The row count without its floor of one row.
RowCountNoFloor(data) == Len(data)

\* Math.max(sorted.length, 1)
RowCount(data) == Max(Len(data), 1)

calculateChartHeight(c) ==
  IF \E i, j \in DOMAIN c.data : i # j /\ CompareThrows(c.data[i], c.data[j], c.mode)
  THEN Throw(c)
  ELSE {[c EXCEPT !.data = AssignRows(c.data, position),
                  !.chartHeight = RowCount(c.data)]
          : position \in SortedPositions(c.data, c.mode)}

\* ------------------------------------------------------ the occupancy grid

\* 2 * v + k for an index v: a number for a number, NaN for undefined. (No
\* specification renders indices of another type.)
Doubled(v, k) == IF v.kind = "number" THEN Num(2 * v.val + k) ELSE NaN

\* The relative index Array.prototype.fill makes of an argument, for an array
\* of `length`: NaN counts as 0, a negative index counts from the end.
FillIndex(v, length) ==
  IF v.kind # "number" THEN 0
  ELSE IF v.val < 0 THEN Max(length + v.val, 0)
  ELSE Min(v.val, length)

\* A fill that also covers the corridor columns on both sides of the bar.
FilledCellsWide(bar, gridLastIDX) ==
  LET start == Doubled(bar.startIDX, 0)
      stop == Doubled(bar.endIDX, 3)
  IN <<FillIndex(start, gridLastIDX), FillIndex(stop, gridLastIDX) - 1>>

\* The cells of one row array that fill(1, start, start + length) sets, for a
\* bar, as <<first, last>> (none when last < first): start = startIDX * 2 + 1,
\* length = (endIDX - startIDX + 1) * 2 - 1. The cells the row is not filled
\* with 1 at hold 0 or nothing, and are walkable.
FilledCells(bar, gridLastIDX) ==
  LET start == Doubled(bar.startIDX, 1)
      stop == IF start.kind = "number" /\ bar.endIDX.kind = "number"
              THEN Num(start.val + (bar.endIDX.val - bar.startIDX.val + 1) * 2 - 1)
              ELSE NaN
  IN <<FillIndex(start, gridLastIDX), FillIndex(stop, gridLastIDX) - 1>>

\* The comparator of buildPathfindingGrid's toSorted (a.yIndex > b.yIndex ?
\* 1 : -1) orders the bars by yIndex when all of them have different rows.
RowsComparable(data) ==
  /\ \A i \in DOMAIN data : data[i].yIndex.kind = "number"
  /\ \A i, j \in DOMAIN data : i < j => data[i].yIndex.val # data[j].yIndex.val

\* The rows are 0 .. n-1 in some order, as calculateChartHeight leaves them:
\* the position of a bar among the sorted bars is its yIndex.
RowsDense(data) ==
  /\ \A i \in DOMAIN data :
       data[i].yIndex.kind = "number" /\ data[i].yIndex.val \in 0..(Len(data) - 1)
  /\ \A i, j \in DOMAIN data : i < j => data[i].yIndex.val # data[j].yIndex.val

\* The orders the sort of buildPathfindingGrid may return: for each bar its
\* position (from 0) among the bars sorted by yIndex; any order when the
\* comparator is inconsistent.
GridOrders(data) ==
  IF RowsDense(data)
  THEN {[i \in DOMAIN data |-> data[i].yIndex.val]}
  ELSE IF RowsComparable(data)
  THEN {[i \in DOMAIN data |->
           Cardinality({j \in DOMAIN data : data[j].yIndex.val < data[i].yIndex.val})]}
  ELSE {[i \in DOMAIN data |-> p[i] - 1] : p \in Permutations(DOMAIN data)}

\* A matrix without its first empty row is as high as the chart's rows
\* doubled.
GridOfRowsDoubled(data, gridLastIDX, order) ==
  [ built |-> TRUE, copy |-> FALSE, searched |-> FALSE,
    width |-> gridLastIDX,
    height |-> 2 * RowCount(data),
    rows |-> [p \in 1..Len(data) |->
                FilledCells(data[CHOOSE i \in DOMAIN data : order[i] = p - 1],
                            gridLastIDX)] ]

\* new Grid(matrix): width and height of the matrix, and for each bar in
\* sorted order the cells of its row that are 1. The matrix is an empty row,
\* then for each bar its row and another empty row. `searched` tells whether
\* the nodes of the grid carry the opened/closed marks of a path search,
\* `copy` whether the grid is another object than this.pathfindingGrid.
GridOf(data, gridLastIDX, order) ==
  [ built |-> TRUE,
    copy |-> FALSE,
    searched |-> FALSE,
    width |-> gridLastIDX,
    height |-> 2 * Len(data) + 1,
    rows |-> [p \in 1..Len(data) |->
                FilledCells(data[CHOOSE i \in DOMAIN data : order[i] = p - 1],
                            gridLastIDX)] ]

\* matrix[y][x] is 1: the node at (x, y) is not walkable.
Occupied(grid, x, y) ==
  /\ y % 2 = 1
  /\ (y + 1) \div 2 \in DOMAIN grid.rows
  /\ x >= grid.rows[(y + 1) \div 2][1]
  /\ x <= grid.rows[(y + 1) \div 2][2]

buildPathfindingGrid(c) ==
  {[c EXCEPT !.pathfindingGrid = GridOf(c.data, c.columnsNumber * 2 + 1, order)]
     : order \in GridOrders(c.data)}

\* ------------------------------------------------------ connecting lines

\* Anchors on the first and the last cell of the bar.
getBarCoordinatesInside(bar) ==
  LET centerX == IF bar.startIDX.kind = "number" /\ bar.endIDX.kind = "number"
                 THEN Num(bar.startIDX.val + bar.endIDX.val + 1) ELSE NaN
  IN [ center |-> <<centerX, Doubled(bar.yIndex, 1)>>,
       top    |-> <<centerX, Doubled(bar.yIndex, 0)>>,
       right  |-> <<Doubled(bar.endIDX, 1), Doubled(bar.yIndex, 1)>>,
       bottom |-> <<centerX, Doubled(bar.yIndex, 2)>>,
       left   |-> <<Doubled(bar.startIDX, 1), Doubled(bar.yIndex, 1)>> ]

\* getBarCoordinates(bar) in grid coordinates: the anchors of a bar, each an
\* <<x, y>> of numbers or NaN.
getBarCoordinates(bar) ==
  LET centerX == IF bar.startIDX.kind = "number" /\ bar.endIDX.kind = "number"
                 THEN Num(bar.startIDX.val + bar.endIDX.val + 1) ELSE NaN
  IN [ center |-> <<centerX, Doubled(bar.yIndex, 1)>>,
       top    |-> <<centerX, Doubled(bar.yIndex, 0)>>,
       right  |-> <<Doubled(bar.endIDX, 2), Doubled(bar.yIndex, 1)>>,
       bottom |-> <<centerX, Doubled(bar.yIndex, 2)>>,
       left   |-> <<Doubled(bar.startIDX, 0), Doubled(bar.yIndex, 1)>> ]

\* grid.getNodeAt(x, y), this.nodes[y][x]: a TypeError without a row y, no
\* node (undefined) without a column x in it.
HasRow(grid, at) == at[2].kind = "number" /\ at[2].val \in 0..(grid.height - 1)
HasNode(grid, at) ==
  HasRow(grid, at) /\ at[1].kind = "number" /\ at[1].val \in 0..(grid.width - 1)

\* grid.getNeighbors(node, DiagonalMovement.Never): the walkable cells above,
\* right of, below and left of a cell.
Neighbors(grid, cell) ==
  {n \in {<<cell[1], cell[2] - 1>>, <<cell[1] + 1, cell[2]>>,
          <<cell[1], cell[2] + 1>>, <<cell[1] - 1, cell[2]>>} :
     /\ n[1] \in 0..(grid.width - 1)
     /\ n[2] \in 0..(grid.height - 1)
     /\ ~Occupied(grid, n[1], n[2])}

\* The number of steps of a shortest walk from the cells of `frontier` (which
\* are `steps` steps from the start) to `goal`; -1 when there is none.
RECURSIVE Distance(_, _, _, _, _)
Distance(grid, frontier, seen, goal, steps) ==
  IF goal \in frontier THEN steps
  ELSE LET next == UNION {Neighbors(grid, cell) : cell \in frontier} \ seen
       IN IF next = {} THEN -1
          ELSE Distance(grid, next, seen \cup next, goal, steps + 1)

\* pathfinder.findPath(startX, startY, endX, endY, grid) as far as the chart
\* reads it: whether it throws, and the number of steps of a shortest walk
\* from the start to the end over walkable cells (-1 when the end cannot be
\* reached, or is no node).
findPath(from, to, grid) ==
  IF ~HasNode(grid, from) \/ ~HasRow(grid, to)
  THEN [threw |-> TRUE, steps |-> -1]
  ELSE IF ~HasNode(grid, to) THEN [threw |-> FALSE, steps |-> -1]
  ELSE LET start == <<from[1].val, from[2].val>>
       IN [threw |-> FALSE,
           steps |-> Distance(grid, {start}, {start}, <<to[1].val, to[2].val>>, 0)]

\* The length of the path findPath returns: no point when there is no walk;
\* otherwise the points of a walk that makes `detour` detours of two steps
\* from a shortest one (the finder is a best-first search: it returns a
\* path whenever there is one, not always a shortest one).
PathLength(steps, detour) ==
  IF steps < 0 THEN 0
  ELSE IF steps = 0 THEN 1
  ELSE steps + 1 + 2 * detour

\* No copy: the searches run on the grid itself.
cloneNone(grid) == grid

\* grid.clone(): another grid, of new nodes with the same walkable cells.
clone(grid) == [grid EXCEPT !.copy = TRUE, !.searched = FALSE]

\* The four searches of drawLineBetween in order, right->left, right->top,
\* bottom->left, bottom->top: the anchors each one joins.
CandidateEnds(from, to) ==
  << <<from.right, to.left>>, <<from.right, to.top>>,
     <<from.bottom, to.left>>, <<from.bottom, to.top>> >>

\* A sort that leaves the latest of the shortest candidates first.
ShortestLast(points) ==
  LET kept == {k \in DOMAIN points : points[k] > 0}
  IN IF kept = {} THEN 0
     ELSE CHOOSE k \in kept :
            \A j \in kept : points[k] < points[j] \/ (points[k] = points[j] /\ k >= j)

\* paths.filter(path => path.path.length > 0) followed by the stable sort by
\* length: the candidate that ends up first, 0 when no candidate is left.
Shortest(points) ==
  LET kept == {k \in DOMAIN points : points[k] > 0}
  IN IF kept = {} THEN 0
     ELSE CHOOSE k \in kept :
            \A j \in kept : points[k] < points[j] \/ (points[k] = points[j] /\ k <= j)

\* The searches of drawLineBetween(context, barFrom, barTo) for the bars at
\* positions i and j of the data: the four results of findPath, each search
\* on a clone of this.pathfindingGrid. A search leaves its marks on the nodes
\* of the grid it runs on (`marks`: the chart's own grid is among them).
Searches(c, i, j) ==
  LET ends == CandidateEnds(getBarCoordinates(c.data[i]), getBarCoordinates(c.data[j]))
      grids == [k \in 1..4 |-> clone(c.pathfindingGrid)]
  IN [ from |-> i, to |-> j,
       found |-> [k \in 1..4 |-> findPath(ends[k][1], ends[k][2], grids[k])],
       marks |-> \E k \in 1..4 : ~grids[k].copy ]

\* drawLineBetween: the points of the four paths, the candidate drawn, and
\* whether the promise is rejected (a search throws, or paths[0] is
\* undefined).
drawLineBetween(searches, detour) ==
  LET threw == \E k \in 1..4 : searches.found[k].threw
      points == [k \in 1..4 |-> PathLength(searches.found[k].steps, detour[k])]
  IN [ from |-> searches.from, to |-> searches.to,
       threw |-> threw,
       points |-> IF threw THEN <<0, 0, 0, 0>> ELSE points,
       shortest |-> IF threw THEN 0 ELSE Shortest(points),
       rejected |-> threw \/ Shortest(points) = 0 ]

\* The connectors renderConnectingLines(forBar) draws, as <<i, j>> positions
\* in the data: those of every bar, or of forBar alone when it is given (not
\* 0) and has connections. A connection to an id is one to every bar of that
\* id (barIDToDataMap).
Connectors(c, forBar) ==
  LET sources == IF forBar # 0 /\ c.data[forBar].connectedTo # {}
                 THEN {forBar} ELSE DOMAIN c.data
  IN {<<i, j>> \in sources \X DOMAIN c.data : c.data[j].id \in c.data[i].connectedTo}

\* renderConnectingLines(forBar): a TypeError when the body has no canvas at
\* childNodes[columnsNumber] (no column was rendered); otherwise the canvas
\* is cleared and every connector is drawn on it (`canvas`: what became of
\* each drawLineBetween), and the promise is resolved unless the promise of a
\* connector is rejected. One outcome for each way
\* of `detours` the finder may take.
renderConnectingLines(c, forBar, detours) ==
  IF c.columnsNumber = 0
  THEN {[threw |-> TRUE, resolved |-> FALSE, chart |-> c]}
  ELSE LET searches == {Searches(c, ij[1], ij[2]) : ij \in Connectors(c, forBar)}
           searched == [c EXCEPT !.pathfindingGrid.searched =
                                   @ \/ \E line \in searches : line.marks]
       IN {LET lines == {drawLineBetween(line, detour) : line \in searches}
           IN [threw |-> FALSE,
               resolved |-> \A line \in lines : ~line.rejected,
               chart |-> [searched EXCEPT
                 !.canvas = lines]]
             : detour \in detours}

\* ------------------------------------------------------ bars

\* The first half of processBar: startIDX.
processBarStart(c, bar) ==
  IF IsUndefined(bar.startIDX)
  THEN IF c.mode.index THEN [threw |-> TRUE, bar |-> bar]
       ELSE LET dt == castToDateTime(bar.start)
            IN IF dt.kind # "DateTime" THEN [threw |-> TRUE, bar |-> bar]
               ELSE [threw |-> FALSE,
                     bar |-> [bar EXCEPT !.start = dt, !.startIDX = ColumnOf(c, dt)]]
  ELSE IF TypeOf(bar.endIDX) # "number" /\ c.mode.index
  THEN [threw |-> TRUE, bar |-> bar]
  ELSE [threw |-> FALSE, bar |-> bar]

\* The second half of processBar: endIDX.
processBarEnd(c, bar) ==
  IF IsUndefined(bar.endIDX)
  THEN IF c.mode.index THEN [threw |-> TRUE, bar |-> bar]
       ELSE LET dt == castToDateTime(bar.end)
            IN IF dt.kind # "DateTime" THEN [threw |-> TRUE, bar |-> bar]
               ELSE [threw |-> FALSE,
                     bar |-> [bar EXCEPT !.end = dt, !.endIDX = ColumnOf(c, dt)]]
  ELSE IF TypeOf(bar.endIDX) # "number" /\ c.mode.index
  THEN [threw |-> TRUE, bar |-> bar]
  ELSE [threw |-> FALSE, bar |-> bar]

processBar(c, bar) ==
  LET first == processBarStart(c, bar)
  IN IF first.threw THEN first ELSE processBarEnd(c, first.bar)

\* The bar loop of reindexData (calendar mode): bars are re-indexed in order
\* until one has a start or an end that is no DateTime (a TypeError), which
\* leaves the bars before it re-indexed.
reindexBars(c) ==
  IF c.mode.index THEN {c}
  ELSE LET bad == {i \in DOMAIN c.data :
                     c.data[i].start.kind # "DateTime" \/ c.data[i].end.kind # "DateTime"}
           firstBad == IF bad = {} THEN Len(c.data) + 1
                       ELSE CHOOSE i \in bad : \A k \in bad : i <= k
           data == [i \in DOMAIN c.data |->
                      IF i < firstBad
                      THEN [c.data[i] EXCEPT !.startIDX = ColumnOf(c, c.data[i].start),
                                             !.endIDX = ColumnOf(c, c.data[i].end)]
                      ELSE IF i = firstBad /\ c.data[i].start.kind = "DateTime"
                      THEN [c.data[i] EXCEPT !.startIDX = ColumnOf(c, c.data[i].start)]
                      ELSE c.data[i]]
       IN {[c EXCEPT !.data = data,
                     !.status = IF bad = {} THEN "ok" ELSE "threw"]}

reindexData(c) ==
  Then(buildFormatToColumnMap(c), LAMBDA c1 :
    IF ~c1.hasData THEN {c1}
    ELSE Then(Then(reindexBars(c1), calculateChartHeight), buildPathfindingGrid))

\* ------------------------------------------------------ rendering

\* render(), the part that runs before it returns its promise:
\* renderChartTemplate creates the header columns by the same loop as the axis
\* map; everything else waits for promise callbacks.
render(c) ==
  IF AxisHangs(c.mode, c.start, c.end)
  THEN {[c EXCEPT !.status = "hang"]}
  ELSE {[c EXCEPT !.pending = "render", !.promise = "pending", !.notified = FALSE,
                  !.reaction = "none"]}

\* A renderBars that packs the rows again before it draws.
renderBarsPacked(c) ==
  IF ~c.hasData THEN {[c EXCEPT !.promise = "rejected"]}
  ELSE Then(calculateChartHeight(c), LAMBDA c1 :
         {[c1 EXCEPT !.promise = "pending",
                     !.pending = IF c1.pending = "render" THEN "render" ELSE "bars"]})

\* renderBars(), the part that runs before it returns its promise: the bar
\* elements are made (a TypeError rejects the promise when this.data is
\* undefined); the rest waits for promise callbacks.
renderBars(c) ==
  IF ~c.hasData THEN {[c EXCEPT !.promise = "rejected"]}
  ELSE {[c EXCEPT !.promise = "pending",
                  !.pending = IF c.pending = "render" THEN "render" ELSE "bars"]}

\* The promise callback of renderBars: the bar elements are put on the page,
\* the grid is built and the lines are drawn; the promise is resolved after
\* the promise of renderConnectingLines is, and stays pending for ever when
\* that one is not resolved or renderConnectingLines throws.
renderBarsThen(c, detours) ==
  Then(buildPathfindingGrid([c EXCEPT !.shown = TRUE, !.elements = c.data # <<>>]), LAMBDA c1 :
    {[lines.chart EXCEPT
        !.pending = "none",
        !.promise = IF lines.threw \/ ~lines.resolved THEN "pending" ELSE "resolved"]
       : lines \in renderConnectingLines(c1, 0, detours)})

\* The promise callbacks of render(): columnsNumber is the number of header
\* columns, the template replaces the children of the container, the column
\* width is measured when there is a column, and renderBars runs; when its
\* promise is resolved the promise of render is (resolve(this) queues the
\* continuations of the promise as jobs that run after this callback), and
\* the rendered notification is dispatched (dispatchEvent runs the listeners
\* before it returns).
renderThen(c, detours) ==
  LET columns == ColumnCount(c.mode, c.start, c.end)
      c1 == [c EXCEPT !.columnsNumber = columns,
                      !.columnWidth = IF columns > 0 THEN ColumnWidth ELSE @,
                      !.mounted = TRUE,
                      !.shown = FALSE,
                      !.elements = FALSE,
                      !.canvas = {}]
  IN Then(renderBars(c1), LAMBDA c2 :
       IF c2.promise = "rejected" THEN {c2}
       ELSE {[c3 EXCEPT !.notified = (c3.promise = "resolved"),
                        !.reaction = IF c3.promise = "resolved" THEN "queued" ELSE "none"]
               : c3 \in renderBarsThen(c2, detours)})

\* The promise callbacks a call has left behind, run to their end.
settle(c, detours) ==
  IF c.pending = "render"
  THEN {[c1 EXCEPT !.pending = "none"] : c1 \in renderThen(c, detours)}
  ELSE renderBarsThen(c, detours)

\* ------------------------------------------------------ dragging and hovering

\* Number arithmetic on indices: undefined and NaN give NaN.
Minus(a, b) ==
  IF a.kind = "number" /\ b.kind = "number" THEN Num(a.val - b.val) ELSE NaN
Plus(a, b) ==
  IF a.kind = "number" /\ b.kind = "number" THEN Num(a.val + b.val) ELSE NaN
Times(a, n) == IF a.kind = "number" THEN Num(a.val * n) ELSE NaN

Infinity(sign) == [kind |-> "Infinity", val |-> sign]

\* Math.round(a / width) for a width that is 0 or positive: halves round up;
\* a division by 0 gives an infinity, and 0 / 0 gives NaN.
RoundedQuotient(a, width) ==
  IF a.kind # "number" THEN NaN
  ELSE IF width = 0
  THEN IF a.val = 0 THEN NaN ELSE Infinity(IF a.val > 0 THEN 1 ELSE -1)
  ELSE Num((2 * a.val + width) \div (2 * width))

\* Math.max(0, a)
MathMax0(a) ==
  IF a.kind = "number" THEN Num(Max(0, a.val))
  ELSE IF a.kind = "Infinity" THEN (IF a.val > 0 THEN a ELSE Num(0))
  ELSE NaN

\* No upper limit.
MathMinNone(a, b) == b

\* Math.min(a, b) for a number or NaN a.
MathMin(a, b) ==
  IF a.kind # "number" \/ b.kind = "NaN" THEN NaN
  ELSE IF b.kind = "Infinity" THEN (IF b.val > 0 THEN a ELSE b)
  ELSE Num(Min(a.val, b.val))

\* The xIndex the pointermove listener computes for a pointer at page
\* position x.
xIndex(c, x) ==
  LET bar == c.data[c.moving.bar]
      deltaX == x - c.moving.startX
  IN MathMin(Minus(Num(c.columnsNumber - 1), Minus(bar.endIDX, bar.startIDX)),
             MathMax0(RoundedQuotient(Plus(c.moving.startXBar, Num(deltaX)), c.columnWidth)))

\* a != b for an index a and a computed number b.
LooseNotEquals(a, b) == ~(a.kind = "number" /\ b.kind = "number" /\ a.val = b.val)

\* The from and to objects of a move notification.
Snapshot(bar) ==
  [startIDX |-> bar.startIDX, endIDX |-> bar.endIDX, start |-> bar.start, end |-> bar.end]

\* value?.plus(multipliedInterval(deltaXIndex)): undefined stays undefined;
\* index mode adds the empty interval; calendar mode adds deltaXIndex
\* intervals, and luxon throws on NaN (value is a DateTime or undefined in
\* every state of this model).
PlusInterval(value, deltaXIndex, mode) ==
  IF IsUndefined(value) THEN [threw |-> FALSE, value |-> value]
  ELSE IF mode.index THEN [threw |-> FALSE, value |-> value]
  ELSE IF deltaXIndex.kind # "number" THEN [threw |-> TRUE, value |-> value]
  ELSE [threw |-> FALSE, value |-> DateTimeAt(value.val + mode.interval * deltaXIndex.val)]

\* The pointerdown listener: target is the position in the data of the bar
\* whose element is hit, 0 for an element that is no bar.
pointerdown(c, target, x) ==
  IF target = 0 THEN {c}
  ELSE {[c EXCEPT !.moving = [pointerIsDown |-> TRUE,
                              bar |-> target,
                              startX |-> x,
                              startXBar |-> Times(c.data[target].startIDX, c.columnWidth)]]}

\* A pointerup that puts the bar of the last move back where it was.
pointerupBack(c) ==
  {[c EXCEPT !.moving.pointerIsDown = FALSE,
             !.data = [i \in DOMAIN c.data |->
                         IF i = c.lastMove.bar
                         THEN [c.data[i] EXCEPT !.startIDX = c.lastMove.from.startIDX,
                                                !.endIDX = c.lastMove.from.endIDX]
                         ELSE c.data[i]]]}

\* The pointerup and pointerleave listeners.
pointerup(c) == {[c EXCEPT !.moving.pointerIsDown = FALSE]}
pointerleave(c) == {[c EXCEPT !.moving.pointerIsDown = FALSE]}

\* The pointermove listener.
pointermove(c, x) ==
  IF ~c.moving.pointerIsDown THEN {c}
  ELSE LET b == c.moving.bar
           bar == c.data[b]
           to == xIndex(c, x)
       IN IF ~LooseNotEquals(bar.startIDX, to) THEN {c}
          ELSE LET deltaXIndex == Minus(to, bar.startIDX)
                   from == Snapshot(bar)
                   shifted == [bar EXCEPT !.endIDX = Plus(to, Minus(bar.endIDX, bar.startIDX)),
                                          !.startIDX = to]
                   start == PlusInterval(bar.start, deltaXIndex, c.mode)
                   end == PlusInterval(bar.end, deltaXIndex, c.mode)
                   moved == [shifted EXCEPT !.start = start.value, !.end = end.value]
               IN IF start.threw THEN Throw([c EXCEPT !.data[b] = shifted])
                  ELSE IF end.threw
                  THEN Throw([c EXCEPT !.data[b] = [shifted EXCEPT !.start = start.value]])
                  ELSE {[c1 EXCEPT !.lastMove = [bar |-> b, from |-> from, to |-> Snapshot(moved),
                                                 count |-> c.lastMove.count + 1]]
                          : c1 \in renderBars([c EXCEPT !.data[b] = moved])}

\* A revert that restores the indices alone.
revertIndices(c) ==
  LET b == c.moving.bar
      from == c.lastMove.from
  IN renderBars([c EXCEPT !.data[b] = [@ EXCEPT !.startIDX = from.startIDX,
                                                !.endIDX = from.endIDX]])

\* The revert() of the last move notification: it writes the notification's
\* `from` to the bar #movingBarData holds when it is called, and renders the
\* bars.
revert(c) ==
  LET b == c.moving.bar
      from == c.lastMove.from
  IN renderBars([c EXCEPT !.data[b] = [@ EXCEPT !.startIDX = from.startIDX,
                                                !.endIDX = from.endIDX,
                                                !.start = from.start,
                                                !.end = from.end]])

\* mouseEnterHandler(bar) with highlightConnectedOnHover at its default
\* (true), and mouseLeaveHandler(bar): the connectors are drawn again, those
\* of the bar alone or all of them. The promise is dropped.
mouseEnterHandler(c, bar, detours) ==
  {IF lines.threw THEN [c EXCEPT !.status = "threw"] ELSE lines.chart
     : lines \in renderConnectingLines(c, bar, detours)}

mouseLeaveHandler(c, detours) ==
  {IF lines.threw THEN [c EXCEPT !.status = "threw"] ELSE lines.chart
     : lines \in renderConnectingLines(c, 0, detours)}

\* ------------------------------------------------------ public methods

\* One of the two halves of setPeriod: the value stored in this.start/this.end,
\* or a throw. parseInt of an integer number is that number.
PeriodValue(c, v) ==
  IF c.mode.index
  THEN IF TypeOf(v) = "number" /\ v.val >= 0
       THEN [threw |-> FALSE, value |-> Num(v.val)]
       ELSE [threw |-> TRUE, value |-> v]
  ELSE [threw |-> FALSE, value |-> castToDateTime(v)]

setPeriodStart(c, start) ==
  IF IsUndefined(start) THEN {c}
  ELSE LET r == PeriodValue(c, start)
       IN IF r.threw THEN Throw(c) ELSE {[c EXCEPT !.start = r.value]}

setPeriodEnd(c, end) ==
  IF IsUndefined(end) THEN {c}
  ELSE LET r == PeriodValue(c, end)
       IN IF r.threw THEN Throw(c) ELSE {[c EXCEPT !.end = r.value]}

setPeriod(c, start, end, doRender) ==
  Then(Then(Then(setPeriodStart(c, start),
                 LAMBDA c1 : setPeriodEnd(c1, end)),
            reindexData),
       LAMBDA c3 : IF doRender THEN render(c3) ELSE {c3})

\* The bars of the argument are new objects: none of them is on the page, and
\* the bar a drag holds (if any) is no bar of the chart any more.
setData(c, data, doRender) ==
  LET processed == [i \in DOMAIN data |-> processBar(c, data[i])]
  IN IF \E i \in DOMAIN processed : processed[i].threw
     THEN Throw(c)
     ELSE Then(calculateChartHeight(
                 [c EXCEPT !.data = [i \in DOMAIN data |-> processed[i].bar],
                           !.hasData = TRUE,
                           !.shown = FALSE,
                           !.moving.bar = 0,
                           !.lastMove = [NoMove EXCEPT !.count = c.lastMove.count]]),
               LAMBDA c1 : IF doRender THEN render(c1) ELSE {c1})

\* An options object as far as the model reads it: its mode (no mode key, a
\* preset name, or a ChartMode object) and its
\* customization.chart.bar.heightCoef (undefined: no such key).
NoMode == [kind |-> "none", preset |-> "", object |-> IndexMode(1), heightCoef |-> Undefined]
Preset(name) ==
  [kind |-> "preset", preset |-> name, object |-> IndexMode(1), heightCoef |-> Undefined]
ModeObject(m) == [kind |-> "object", preset |-> "", object |-> m, heightCoef |-> Undefined]
HeightCoef(options, v) == [options EXCEPT !.heightCoef = v]

PresetNames == DOMAIN ChartModeDEFAULTS

\* lodash's merge(options, argument): the keys of the argument are written
\* into the options object, which is returned (a key whose value is undefined
\* is skipped).
merge(options, arg) ==
  [ kind |-> IF arg.kind = "none" THEN options.kind ELSE arg.kind,
    preset |-> IF arg.kind = "none" THEN options.preset ELSE arg.preset,
    object |-> IF arg.kind = "none" THEN options.object ELSE arg.object,
    heightCoef |-> IF IsUndefined(arg.heightCoef) THEN options.heightCoef ELSE arg.heightCoef ]

\* this.options of an instance, and the instance with `options` for its
\* this.options.
OptionsOf(c) == HeightCoef(ModeObject(c.mode), c.heightCoef)
WithOptions(c, options) ==
  [c EXCEPT !.mode = IF options.kind = "object" THEN options.object
                     ELSE ChartModeDEFAULTS[options.preset],
            !.heightCoef = options.heightCoef]

\* The bar height coefficient check of processOptions: a value that is no
\* number, or is <= 0 or > 1, is replaced by this.BAR_HEIGHT_COEFFICIENT,
\* which is undefined on an instance (the field is static). Every comparison
\* with NaN is false.
CheckedHeightCoef(v) ==
  IF v.kind = "NaN" THEN v
  ELSE IF TypeOf(v) # "number" \/ ~GreaterThan(v, Num(0)) \/ GreaterThan(v, Num(CoefUnit))
  THEN Undefined
  ELSE v

\* merge(this.options, options) followed by processOptions: the mode and the
\* heightCoef in force afterwards. A preset name is one of PresetNames (any
\* other name throws, and is not among the arguments of this model).
processOptions(c, modeArg) ==
  LET options == merge(OptionsOf(c), modeArg)
  IN {[WithOptions(c, options) EXCEPT !.heightCoef = CheckedHeightCoef(options.heightCoef)]}

setOptions(c, modeArg, doRender) ==
  Then(Then(processOptions(c, modeArg), reindexData),
       LAMBDA c2 : IF doRender THEN render(c2) ELSE {c2})

\* The data argument of Chart.get: absent, or a bar array.
NoData == [given |-> FALSE, bars |-> <<>>]
Data(bars) == [given |-> TRUE, bars |-> bars]

\* The tail shared by both branches of Chart.get.
setDataOrRender(c, dataArg) ==
  IF dataArg.given THEN setData(c, dataArg.bars, TRUE) ELSE render(c)

\* ------------------------------------------------------ inputs

\* A caller's bar { id, start, end } of calendar mode, dates as strings.
CalendarBar(id, from, to) ==
  [ id |-> id, start |-> Str(from), end |-> Str(to),
    startIDX |-> Undefined, endIDX |-> Undefined,
    yIndex |-> Undefined, connectedTo |-> {} ]

\* A caller's bar { id, startIDX, endIDX, connectedTo } of index mode.
IndexBar(id, from, to, connectedTo) ==
  [ id |-> id, start |-> Undefined, end |-> Undefined,
    startIDX |-> from, endIDX |-> to,
    yIndex |-> Undefined, connectedTo |-> connectedTo ]

\* The day of March 2024 as a tick, the axis of the examples starting 03-01.
March(day) == (day - 1) * TicksPerDay

\* The data of src/dev.js (days mode, 2024-03-01 .. 2024-03-31).
DevData ==
  << CalendarBar(3123, March(6), March(7)),
     CalendarBar(3124, March(6), March(6)),
     CalendarBar(3125, March(7), March(8)),
     CalendarBar(3126, March(6), March(6)) >>
DevPeriod == <<Str(March(1)), Str(March(31))>>

\* The index-mode data of src/unnamed/part_000 (period 2 .. 10).
IndexExampleData ==
  << IndexBar(3123, Num(2), Num(4), {3125, 3124}),
     IndexBar(3127, Num(3), Num(3), {3125, 3124}),
     IndexBar(3125, Num(4), Num(5), {}),
     IndexBar(3126, Num(3), Num(5), {}),
     IndexBar(3124, Num(5), Num(5), {3126}) >>
IndexExamplePeriod == <<Num(2), Num(10)>>

\* The first data set of src/unnamed/part_000 (days mode; id 3124 twice).
DaysExampleData ==
  << CalendarBar(3123, March(6), March(7)),
     CalendarBar(3124, March(6), March(6)),
     CalendarBar(3125, March(7), March(8)),
     CalendarBar(3126, March(8), March(9)),
     [CalendarBar(3124, March(6), March(9)) EXCEPT !.connectedTo = {3125, 3126}] >>

\* The sequences of at most MaxBars of the given (from, to) pairs.
PairArrays(pairs) == UNION {[1..n -> pairs] : n \in 0..MaxBars}

CalendarPairs == {p \in (0..MaxTime) \X (0..MaxTime) : p[1] <= p[2]}
IndexPairs == {p \in (0..MaxIdx) \X (0..MaxIdx) : p[1] <= p[2]}

\* Arrays of at most MaxBars bars, the k-th with id k.
CalendarArrays ==
  {[k \in DOMAIN f |-> CalendarBar(k, f[k][1], f[k][2])] : f \in PairArrays(CalendarPairs)}
IndexArrays ==
  {[k \in DOMAIN f |-> IndexBar(k, Num(f[k][1]), Num(f[k][2]), {})] : f \in PairArrays(IndexPairs)}

\* The arrays made of some of the bars of an array, in its order.
RECURSIVE SubArrays(_)
SubArrays(bars) ==
  IF bars = <<>> THEN {<<>>}
  ELSE LET rest == SubArrays(Tail(bars))
       IN rest \cup {<<Head(bars)>> \o r : r \in rest}

Dates(from, to) == {Str(t) : t \in from..to}
Numbers(from, to) == {Num(n) : n \in from..to}
OrUndefined(values) == {Undefined} \cup values

\* The steps of the index-mode ChartMode objects: every one, and those whose
\* loop ends.
IndexIntervals == (-1)..2
PositiveIntervals == 1..2

CalendarModeArgs == {Preset(name) : name \in PresetNames}
IndexModeArgs(intervals) == {ModeObject(IndexMode(n)) : n \in intervals}

\* The inputs of a specification: the mode arguments, periods and data sets
\* of calendar mode and of index mode. A chart stays in the family (calendar
\* or index) it was created in.
GenericInputs ==
  [ modes   |-> <<CalendarModeArgs, IndexModeArgs(PositiveIntervals)>>,
    periods |-> << OrUndefined(Dates(0, MaxStart)) \X OrUndefined(Dates(0, MaxTime)),
                   OrUndefined(Numbers(0, MaxStart)) \X OrUndefined(Numbers(0, MaxIdx)) >>,
    data    |-> << CalendarArrays, IndexArrays >> ]

AxisInputs ==
  [ modes   |-> <<CalendarModeArgs, IndexModeArgs(IndexIntervals)>>,
    periods |-> << OrUndefined(Dates(0, MaxAxis)) \X OrUndefined(Dates(0, MaxAxis)),
                   OrUndefined(Numbers(-1, MaxAxis)) \X OrUndefined(Numbers(-1, MaxAxis)) >>,
    data    |-> << {}, {} >> ]

\* The charts that are dragged: days mode and index mode of step 1, periods
\* of 2 .. MaxDragIdx + 1 columns from column 0, one bar on those columns or
\* two, the second of one column; the first index-mode bar is connected to
\* the second.
DragPairs(n) ==
  {p \in (0..MaxDragIdx) \X (0..MaxDragIdx) : p[1] <= p[2] /\ (n = 2 => p[1] = p[2])}
DragArrays ==
  {<<>>} \cup {<<p>> : p \in DragPairs(1)}
         \cup {<<p, q>> : p \in DragPairs(1), q \in DragPairs(2)}
DragInputs ==
  [ modes   |-> <<{Preset("days")}, {ModeObject(IndexMode(1))}>>,
    periods |-> << {<<Str(0), Str(k * TicksPerDay)>> : k \in 1..MaxDragIdx},
                   {<<Num(0), Num(k)>> : k \in 1..MaxDragIdx} >>,
    data    |-> << {[k \in DOMAIN f |->
                       CalendarBar(k, f[k][1] * TicksPerDay, f[k][2] * TicksPerDay)]
                      : f \in DragArrays},
                   {[k \in DOMAIN f |->
                       IndexBar(k, Num(f[k][1]), Num(f[k][2]), IF k = 1 THEN {2} ELSE {})]
                      : f \in DragArrays} >> ]

\* The charts whose connectors are routed: index mode of step 1, periods
\* from column 0, two to MaxRouteBars bars on the columns 0 .. MaxRouteIdx,
\* the first bar connected to any of the others.
RoutePairs == {p \in (0..MaxRouteIdx) \X (0..MaxRouteIdx) : p[1] <= p[2]}
RouteInputs ==
  [ modes   |-> <<{}, {ModeObject(IndexMode(1))}>>,
    periods |-> << {}, {<<Num(0), Num(b)>> : b \in 0..MaxRouteIdx} >>,
    data    |-> << {},
                   UNION {{[k \in DOMAIN f |->
                              IndexBar(k, Num(f[k][1]), Num(f[k][2]),
                                       IF k = 1 THEN to ELSE {})]
                             : to \in SUBSET (2..Len(f))}
                            : f \in UNION {[1..n -> RoutePairs] : n \in 2..MaxRouteBars}} >> ]

\* Index-mode bars whose indices are of any type: missing, an integer, a
\* number that is no integer, a string.
IndexValues == {Undefined, Num(0), Num(1), Float(0), Str(1)}
TypedBars == {IndexBar(1, from, to, {}) : from \in IndexValues, to \in IndexValues}
TypedDataSets == {<<>>} \cup {<<b>> : b \in TypedBars}
                   \cup {<<b, IndexBar(2, from, Num(1), {})>> : b \in TypedBars, from \in IndexValues}

ExampleInputs ==
  [ modes   |-> <<CalendarModeArgs, IndexModeArgs(PositiveIntervals)>>,
    periods |-> << {DevPeriod, <<Undefined, Str(March(8))>>},
                   {IndexExamplePeriod, <<Num(0), Undefined>>} >>,
    data    |-> << SubArrays(DevData) \cup SubArrays(DaysExampleData),
                   SubArrays(IndexExampleData) >> ]

Family(index) == IF index THEN 2 ELSE 1
ModeArgsOf(inputs, index) == inputs.modes[Family(index)]
PeriodsOf(inputs, index) == inputs.periods[Family(index)]
DataArgsOf(inputs, index) == {Data(d) : d \in inputs.data[Family(index)]}

\* ------------------------------------------------------ the state machine

VARIABLES
  registered,     \* container.UGLAGanttInstance is set
  chart,          \* the instance on the container
  defaultOptions  \* Chart.defaultOptions (its mode and heightCoef)

vars == <<registered, chart, defaultOptions>>

Init ==
  /\ registered = FALSE
  /\ chart = NewChart
  /\ defaultOptions = HeightCoef(Preset("days"), Num(BAR_HEIGHT_COEFFICIENT))

\* The page can make another call: no call hangs, and no promise callback of
\* an earlier call is waiting to run.
Running == chart.status # "hang" /\ chart.pending = "none"

\* The detours the four searches of a connector may make: none, or any
\* number up to MaxDetour each.
NoDetour == {[k \in 1..4 |-> 0]}
Detours == [1..4 -> 0..MaxDetour]

\* The promise callbacks of the last render() or renderBars() run.
Settle(detours) ==
  /\ registered
  /\ chart.status # "hang"
  /\ chart.pending # "none"
  /\ chart' \in settle(chart, detours)
  /\ UNCHANGED <<registered, defaultOptions>>

\* The job of the caller's continuation of the promise of render() runs.
Continuation ==
  /\ registered
  /\ chart.status # "hang"
  /\ chart.reaction = "queued"
  /\ chart' = [chart EXCEPT !.reaction = "ran"]
  /\ UNCHANGED <<registered, defaultOptions>>

\* Chart.get(container, options, start, end, data) on a container without an
\* instance: the options are merged into Chart.defaultOptions, and the
\* object merge returns, Chart.defaultOptions itself, becomes the
\* this.options of the new instance.
GetNew(modeArg, period, dataArg) ==
  /\ ~registered
  /\ IF IsUndefined(period[1]) \/ IsUndefined(period[2])
     THEN /\ chart' = [chart EXCEPT !.status = "threw"]
          /\ defaultOptions' = merge(defaultOptions, modeArg)
          /\ UNCHANGED registered
     ELSE /\ registered' = TRUE
          /\ chart' \in
               Then(Then(processOptions(WithOptions(NewChart, defaultOptions), modeArg),
                         LAMBDA c : setPeriod(c, period[1], period[2], FALSE)),
                    LAMBDA c : setDataOrRender(c, dataArg))
          /\ defaultOptions' = OptionsOf(chart')

\* Chart.get(container, options) on a container that has an instance: the
\* options are processed and the chart is rendered (no period, no data).
GetExisting(modeArg) ==
  /\ registered /\ Running
  /\ chart' \in Then(processOptions([chart EXCEPT !.status = "ok"], modeArg), render)
  /\ defaultOptions' = OptionsOf(chart')
  /\ UNCHANGED registered

\* chart.setPeriod(start, end)
SetPeriod(period) ==
  /\ registered /\ Running
  /\ chart' \in setPeriod([chart EXCEPT !.status = "ok"], period[1], period[2], TRUE)
  /\ UNCHANGED <<registered, defaultOptions>>

\* chart.setData(data, render)
SetData(dataArg, doRender) ==
  /\ registered /\ Running
  /\ chart' \in setData([chart EXCEPT !.status = "ok"], dataArg.bars, doRender)
  /\ UNCHANGED <<registered, defaultOptions>>

\* chart.setOptions(options)
SetOptions(modeArg) ==
  /\ registered /\ Running
  /\ chart' \in setOptions([chart EXCEPT !.status = "ok"], modeArg, TRUE)
  /\ defaultOptions' = OptionsOf(chart')
  /\ UNCHANGED registered

\* chart.setPeriod(start, end, false) and chart.setOptions(options, false)
SetPeriodNoRender(period) ==
  /\ registered /\ Running
  /\ chart' \in setPeriod([chart EXCEPT !.status = "ok"], period[1], period[2], FALSE)
  /\ UNCHANGED <<registered, defaultOptions>>

SetOptionsNoRender(modeArg) ==
  /\ registered /\ Running
  /\ chart' \in setOptions([chart EXCEPT !.status = "ok"], modeArg, FALSE)
  /\ defaultOptions' = OptionsOf(chart')
  /\ UNCHANGED registered

\* chartBody's pointerdown listener runs for a pointer at x on the element of
\* the bar at `target` (0: on no bar). The listeners are on the body of the
\* last render (editableBars is true by default); a bar has an element once
\* renderBars has appended it.
PointerDown(target, x) ==
  /\ registered /\ Running /\ chart.mounted
  /\ target # 0 => chart.shown /\ target \in DOMAIN chart.data
  /\ chart' \in pointerdown([chart EXCEPT !.status = "ok"], target, x)
  /\ UNCHANGED <<registered, defaultOptions>>

PointerUp ==
  /\ registered /\ Running /\ chart.mounted
  /\ chart' \in pointerup([chart EXCEPT !.status = "ok"])
  /\ UNCHANGED <<registered, defaultOptions>>

PointerLeave ==
  /\ registered /\ Running /\ chart.mounted
  /\ chart' \in pointerleave([chart EXCEPT !.status = "ok"])
  /\ UNCHANGED <<registered, defaultOptions>>

\* chartBody's pointermove listener runs for a pointer at x (the bar of a
\* drag is a bar of the data). The model follows a chart up to its
\* MaxMoves-th move notification.
PointerMove(x) ==
  /\ registered /\ Running /\ chart.mounted
  /\ chart.lastMove.count < MaxMoves
  /\ chart.moving.pointerIsDown => chart.moving.bar # 0
  /\ chart' \in pointermove([chart EXCEPT !.status = "ok"], x)
  /\ UNCHANGED <<registered, defaultOptions>>

\* A listener of the move notification calls the revert() of the last one:
\* in the notification's dispatch or any time later.
Revert ==
  /\ registered
  /\ chart.status # "hang"
  /\ chart.lastMove.bar # 0
  /\ chart.moving.bar # 0
  /\ chart' \in revert(chart)
  /\ UNCHANGED <<registered, defaultOptions>>

\* The mouseenter listener of the element of the bar at `bar`, and the
\* mouseleave listener of a bar element of the page: an element of this.data
\* or one that a setData without a render has left behind (mouseLeaveHandler
\* does not read its bar).
MouseEnter(bar, detours) ==
  /\ registered /\ Running /\ chart.shown
  /\ bar \in DOMAIN chart.data
  /\ chart' \in mouseEnterHandler([chart EXCEPT !.status = "ok"], bar, detours)
  /\ UNCHANGED <<registered, defaultOptions>>

MouseLeave(bar, detours) ==
  /\ registered /\ Running /\ chart.elements
  /\ chart.shown => bar \in DOMAIN chart.data
  /\ chart' \in mouseLeaveHandler([chart EXCEPT !.status = "ok"], detours)
  /\ UNCHANGED <<registered, defaultOptions>>

\* The calls a page may make, with arguments from `inputs`.
Create(inputs) ==
  \E index \in BOOLEAN :
    \E modeArg \in ModeArgsOf(inputs, index), period \in PeriodsOf(inputs, index),
       dataArg \in DataArgsOf(inputs, index) \cup {NoData} :
      GetNew(modeArg, period, dataArg)

Reconfigure(inputs) ==
  \E modeArg \in ModeArgsOf(inputs, chart.mode.index) \cup {NoMode} :
    GetExisting(modeArg)

ChangePeriod(inputs) ==
  \E period \in PeriodsOf(inputs, chart.mode.index) : SetPeriod(period)

ChangeData(inputs) ==
  \E dataArg \in DataArgsOf(inputs, chart.mode.index) : SetData(dataArg, TRUE)

ChangeOptions(inputs) ==
  \E modeArg \in ModeArgsOf(inputs, chart.mode.index) \cup {NoMode} :
    SetOptions(modeArg)

\* The chart over the generic periods and data sets.
Next ==
  \/ Create(GenericInputs)
  \/ ChangePeriod(GenericInputs)
  \/ ChangeData(GenericInputs)
  \/ ChangeOptions(GenericInputs)
  \/ Settle(NoDetour)

Spec == Init /\ [][Next]_vars

\* The axis alone: a chart without data, over every period up to MaxAxis and
\* every index-mode step.
NextAxis ==
  \/ Create(AxisInputs)
  \/ Reconfigure(AxisInputs)
  \/ ChangePeriod(AxisInputs)
  \/ ChangeOptions(AxisInputs)
  \/ Settle(NoDetour)

SpecAxis == Init /\ [][NextAxis]_vars

\* The example pages of the repository: their periods, and the arrays made of
\* their bars.
NextExamples ==
  \/ Create(ExampleInputs)
  \/ Reconfigure(ExampleInputs)
  \/ ChangePeriod(ExampleInputs)
  \/ ChangeData(ExampleInputs)
  \/ ChangeOptions(ExampleInputs)
  \/ Settle(NoDetour)

SpecExamples == Init /\ [][NextExamples]_vars

\* Dragging: charts of at most MaxBars bars over at most MaxDragIdx + 1
\* columns, and a pointer anywhere up to MaxPointer.
Pointers == 0..MaxPointer

PointerMoves == \E x \in Pointers : PointerMove(x)

NextDrag ==
  \/ Create(DragInputs)
  \/ Settle(NoDetour)
  \/ \E target \in 0..MaxBars, x \in Pointers : PointerDown(target, x)
  \/ PointerMoves
  \/ PointerUp
  \/ PointerLeave
  \/ Revert
  \/ \E bar \in 1..MaxBars : MouseEnter(bar, NoDetour)
  \/ \E bar \in 1..MaxBars : MouseLeave(bar, NoDetour)

SpecDrag == Init /\ [][NextDrag]_vars

\* The bars of a chart lie within the period it is given: each has its
\* columns, from 0 up to the last column of the axis.
WithinPeriod(c) ==
  \A i \in DOMAIN c.data :
    /\ c.data[i].startIDX.kind = "number" /\ c.data[i].endIDX.kind = "number"
    /\ 0 <= c.data[i].startIDX.val
    /\ c.data[i].startIDX.val <= c.data[i].endIDX.val
    /\ c.data[i].endIDX.val <= ColumnCount(c.mode, c.start, c.end) - 1

\* Pointer events alone, on the charts whose bars lie within the axis.
NextPointer ==
  \/ Create(DragInputs) /\ WithinPeriod(chart')
  \/ Settle(NoDetour)
  \/ \E target \in 0..MaxBars, x \in Pointers : PointerDown(target, x)
  \/ PointerMoves
  \/ PointerUp
  \/ PointerLeave

SpecPointer == Init /\ [][NextPointer]_vars

\* Renders and the callers that wait for them: the dragged charts, created
\* and rendered again.
NextRender ==
  \/ Create(DragInputs)
  \/ Reconfigure(DragInputs)
  \/ Settle(NoDetour)
  \/ Continuation

SpecRender == Init /\ [][NextRender]_vars

\* Calendar charts whose bars are given with their column indices: the bar
\* of id k on the columns k - 1 .. k, its start and end left out, or given as
\* date strings or DateTime values of any day of the axis.
ExplicitDates ==
  {Undefined} \cup UNION {{Str(d * TicksPerDay), DateTimeAt(d * TicksPerDay)} : d \in 0..MaxDragIdx}
ExplicitBar(id, start, end) ==
  [ id |-> id, start |-> start, end |-> end,
    startIDX |-> Num(id - 1), endIDX |-> Num(id),
    yIndex |-> Undefined, connectedTo |-> {} ]
ExplicitInputs ==
  [ modes   |-> <<{Preset("days")}, {}>>,
    periods |-> << {<<Str(0), Str(k * TicksPerDay)>> : k \in 1..MaxDragIdx}, {} >>,
    data    |-> << {<<ExplicitBar(1, start, end)>> : start, end \in ExplicitDates}
                     \cup {<<ExplicitBar(1, Undefined, Undefined), ExplicitBar(2, start, end)>>
                              : start, end \in ExplicitDates},
                   {} >> ]

NextExplicit ==
  \/ Create(ExplicitInputs)
  \/ ChangePeriod(ExplicitInputs)
  \/ ChangeData(ExplicitInputs)
  \/ ChangeOptions(ExplicitInputs)
  \/ Settle(NoDetour)

SpecExplicit == Init /\ [][NextExplicit]_vars

\* Options: calendar charts created and reconfigured with or without a mode
\* preset and with a heightCoef of every sort: none, numbers in (0, 1], the
\* numbers 0 and 1.1, NaN and a string.
HeightCoefs ==
  {Undefined, Num(CoefUnit \div 2), Num(CoefUnit), Num(0), Num(CoefUnit + 1), NaN, Str(1)}
OptionsInputs ==
  [ modes   |-> << {HeightCoef(mode, v) : mode \in {NoMode, Preset("days"), Preset("hours_12")},
                                          v \in HeightCoefs},
                   {} >>,
    periods |-> << {<<Str(0), Str(TicksPerDay)>>, <<Undefined, Str(TicksPerDay)>>}, {} >>,
    data    |-> << {<<>>, <<CalendarBar(1, 0, 0)>>}, {} >> ]

NextOptions ==
  \/ Create(OptionsInputs)
  \/ Reconfigure(OptionsInputs)
  \/ ChangeOptions(OptionsInputs)
  \/ Settle(NoDetour)

SpecOptions == Init /\ [][NextOptions]_vars

\* Hovering over a chart that is changed without being rendered: index-mode
\* charts of two bars, the first connected to the second, on periods from
\* column 0.
HoverInputs ==
  [ modes   |-> <<{}, {ModeObject(IndexMode(1))}>>,
    periods |-> << {}, {<<Num(0), Num(k)>> : k \in 1..MaxDragIdx} >>,
    data    |-> << {},
                   {<<IndexBar(1, Num(p[1]), Num(p[2]), {2}), IndexBar(2, Num(q), Num(q), {})>>
                      : p \in DragPairs(1), q \in 0..MaxDragIdx} >> ]

NextHover ==
  \/ Create(HoverInputs)
  \/ \E period \in PeriodsOf(HoverInputs, chart.mode.index) : SetPeriodNoRender(period)
  \/ \E dataArg \in DataArgsOf(HoverInputs, chart.mode.index) : SetData(dataArg, FALSE)
  \/ SetOptionsNoRender(NoMode)
  \/ Settle(NoDetour)
  \/ \E bar \in 1..MaxBars : MouseEnter(bar, NoDetour)
  \/ \E bar \in 1..MaxBars : MouseLeave(bar, NoDetour)

SpecHover == Init /\ [][NextHover]_vars

\* Connectors: index-mode charts of at most MaxRouteBars bars joined by
\* connectors, whose searches may return any path the contract of the finder
\* allows.
NextRoutes ==
  \/ Create(RouteInputs)
  \/ ChangePeriod(RouteInputs)
  \/ Settle(Detours)

SpecRoutes == Init /\ [][NextRoutes]_vars

\* Index-mode charts given bars of every type (setData without a render).
NextTyped ==
  \/ \E period \in PeriodsOf(GenericInputs, TRUE) :
       GetNew(ModeObject(IndexMode(1)), period, NoData)
  \/ \E data \in TypedDataSets : SetData(Data(data), FALSE)
  \/ Settle(NoDetour)

SpecTyped == Init /\ [][NextTyped]_vars


\* ====================================================== properties

\* The chart has completed its last call and holds a bar set.
Packed == registered /\ chart.status = "ok" /\ chart.hasData

\* Two bars whose closed column ranges [startIDX, endIDX] intersect.
Overlap(a, b) ==
  /\ a.startIDX.kind = "number" /\ a.endIDX.kind = "number"
  /\ b.startIDX.kind = "number" /\ b.endIDX.kind = "number"
  /\ a.startIDX.val <= b.endIDX.val
  /\ b.startIDX.val <= a.endIDX.val

\* The largest number of bars of `data` that cover one column.
MaxOverlap(data) ==
  LET columns == UNION {a.startIDX.val .. a.endIDX.val : a \in
                          {data[i] : i \in {k \in DOMAIN data :
                             data[k].startIDX.kind = "number" /\ data[k].endIDX.kind = "number"}}}
      Covering(col) == {i \in DOMAIN data :
                          /\ data[i].startIDX.kind = "number" /\ data[i].endIDX.kind = "number"
                          /\ data[i].startIDX.val <= col /\ col <= data[i].endIDX.val}
  IN IF columns = {} THEN 0
     ELSE LET widest == CHOOSE col \in columns :
                          \A other \in columns :
                            Cardinality(Covering(other)) <= Cardinality(Covering(col))
          IN Cardinality(Covering(widest))

\* C1: after calculateChartHeight has run, no two bars whose column ranges
\* [startIDX, endIDX] overlap have the same yIndex.
C1_NoSharedRow ==
  Packed =>
    \A i, j \in DOMAIN chart.data :
      (i # j /\ Overlap(chart.data[i], chart.data[j]))
        => /\ chart.data[i].yIndex.kind = "number"
           /\ chart.data[j].yIndex.kind = "number"
           /\ chart.data[i].yIndex # chart.data[j].yIndex

\* C1 witness: a chart that has assigned rows to two overlapping bars.
C1_Witness ==
  /\ Packed
  /\ \E i, j \in DOMAIN chart.data : i # j /\ Overlap(chart.data[i], chart.data[j])

\* The chart has completed its last call, and its axis map is the one of its
\* mode and period.
AxisBuilt ==
  /\ registered /\ chart.status = "ok"
  /\ ~IsUndefined(chart.start) /\ ~IsUndefined(chart.end)
  /\ chart.formatToColumnMap = MapFromEntries(AxisEntries(chart.mode, chart.start, chart.end))

\* The chart holds exactly the bars of `example` (id, start and end), on the
\* period and in the mode of the example page, indexed on the axis of that
\* period and mode.
HoldsExample(example, period, mode) ==
  /\ Packed /\ AxisBuilt
  /\ chart.mode = mode
  /\ chart.start = (IF mode.index THEN period[1] ELSE castToDateTime(period[1]))
  /\ chart.end = (IF mode.index THEN period[2] ELSE castToDateTime(period[2]))
  /\ Len(chart.data) = Len(example)
  /\ \A i \in DOMAIN example :
       /\ chart.data[i].id = example[i].id
       /\ IF mode.index
          THEN /\ chart.data[i].startIDX = example[i].startIDX
               /\ chart.data[i].endIDX = example[i].endIDX
          ELSE /\ chart.data[i].start = castToDateTime(example[i].start)
               /\ chart.data[i].end = castToDateTime(example[i].end)
               /\ chart.data[i].startIDX = ColumnOf(chart, chart.data[i].start)
               /\ chart.data[i].endIDX = ColumnOf(chart, chart.data[i].end)

HoldsIndexExample == HoldsExample(IndexExampleData, IndexExamplePeriod, IndexMode(1))
HoldsDevExample == HoldsExample(DevData, DevPeriod, ChartModeDEFAULTS.days)

\* The yIndex of the bar with this id.
RowOf(id) ==
  LET i == CHOOSE k \in DOMAIN chart.data : chart.data[k].id = id
  IN chart.data[i].yIndex

C4_Original ==
  (registered /\ chart.status = "ok" /\ chart.data = <<>>) => chart.chartHeight = 1

\* The key of an axis value, and the lookup of the value in the axis map.
KeyOf(v) == IF chart.mode.index THEN IndexKey(v) ELSE ToFormat(v, chart.mode.format)
Lookup(v) == MapGet(chart.formatToColumnMap, KeyOf(v))

\* The position of the column that contains v: columns are a step wide from
\* the start, and the end of the period belongs to the last column.
ColumnContaining(v) ==
  Min((v - chart.start.val) \div chart.mode.interval,
      ColumnCount(chart.mode, chart.start, chart.end) - 1)

\* C5 as stated: on an axis that has columns, the lookup of a value inside
\* [start, end], end included, is the position of the column that contains it;
\* the lookup of a value outside is undefined.
C5_Original ==
  (AxisBuilt /\ chart.columnsNumber > 0) =>
    \A v \in (-1)..(MaxAxis + 1) :
      Lookup(v) = IF chart.start.val <= v /\ v <= chart.end.val
                  THEN Num(ColumnContaining(v))
                  ELSE Undefined

C7_Original ==
  ~ /\ registered /\ chart.status = "ok"
    /\ ~IsUndefined(chart.start) /\ ~IsUndefined(chart.end)
    /\ chart.end.val < chart.start.val

\* C8 as stated: in index mode a step of zero or less, with start <= end, stops
\* the build with an error: the build ends for every start <= end and step.
C8_Original ==
  ( /\ registered /\ chart.mode.index /\ chart.mode.interval <= 0
    /\ ~IsUndefined(chart.start) /\ ~IsUndefined(chart.end)
    /\ chart.start.val <= chart.end.val )
  => chart.status = "threw"

\* C9 as stated: in calendar mode a bar whose start or end has no column on the
\* axis is reported as an error: no bar of the data set has an undefined
\* startIDX or endIDX.
C9_Original ==
  (registered /\ chart.hasData /\ ~chart.mode.index) =>
    \A i \in DOMAIN chart.data :
      /\ chart.data[i].startIDX.kind = "number"
      /\ chart.data[i].endIDX.kind = "number"

\* C10 as stated: in index mode every bar accepted into the data set has an
\* integer startIDX and an integer endIDX.
C10_Original ==
  (registered /\ chart.hasData /\ chart.mode.index) =>
    \A i \in DOMAIN chart.data :
      /\ chart.data[i].startIDX.kind = "number"
      /\ chart.data[i].endIDX.kind = "number"

\* ------------------------------------------------------ failed calls

\* What setPeriod and setData build: the period, the data set with its row
\* assignment, the axis map and the occupancy grid.
Built(c) ==
  [ start |-> c.start, end |-> c.end, hasData |-> c.hasData, data |-> c.data,
    formatToColumnMap |-> c.formatToColumnMap, pathfindingGrid |-> c.pathfindingGrid ]

\* C11 (as stated): a setPeriod or setData call that throws leaves the
\* start, the end, the data set, the axis map, the row assignment and the
\* occupancy grid of the chart exactly as they were before the call.
C11_Original ==
  [][(ChangePeriod(AxisInputs) \/ ChangeData(AxisInputs)) /\ chart'.status = "threw"
       => Built(chart') = Built(chart)]_vars

\* ------------------------------------------------------ the occupancy grid

\* The grids buildPathfindingGrid makes of the chart as it is, and the
\* cells of a grid.
BuiltGrids == {c.pathfindingGrid : c \in buildPathfindingGrid(chart)}
GridCells(grid) == (0..(grid.width - 1)) \X (0..(grid.height - 1))

\* The chart holds the grid buildPathfindingGrid makes of it.
GridIsBuilt ==
  /\ registered /\ chart.hasData
  /\ [chart.pathfindingGrid EXCEPT !.searched = FALSE] \in BuiltGrids

\* C12 (as stated): the grid buildPathfindingGrid builds is 2*columnsNumber+1
\* wide and 2*rowCount high.
C12_Original ==
  chart.hasData =>
    \A grid \in BuiltGrids :
      grid.width = 2 * chart.columnsNumber + 1 /\ grid.height = 2 * chart.chartHeight

\* C12 (amended): the grid buildPathfindingGrid builds is 2*columnsNumber+1
\* wide and 2*(number of bars)+1 high: an empty row, then a row and an empty
\* row for each bar.
C12_GridDimensions ==
  chart.hasData =>
    \A grid \in BuiltGrids :
      grid.width = 2 * chart.columnsNumber + 1 /\ grid.height = 2 * Len(chart.data) + 1

\* A chart of two bars or more on an axis with columns holds the grid built
\* of it.
C12_Witness ==
  GridIsBuilt /\ Len(chart.data) >= 2 /\ chart.columnsNumber > 0

\* The bar covers the cell (x, y): y is the bar's row 2*yIndex+1, and x lies
\* in 2*startIDX+1 .. 2*endIDX+1.
BarCovers(bar, x, y) ==
  /\ bar.yIndex.kind = "number" /\ bar.startIDX.kind = "number" /\ bar.endIDX.kind = "number"
  /\ y = 2 * bar.yIndex.val + 1
  /\ 2 * bar.startIDX.val + 1 <= x
  /\ x <= 2 * bar.endIDX.val + 1

\* C13 (as stated): after buildPathfindingGrid a cell (x, y) of the grid is
\* occupied if and only if some bar of the data has y = 2*yIndex+1 and
\* 2*startIDX+1 <= x <= 2*endIDX+1; every other cell is free.
C13_Original ==
  chart.hasData =>
    \A grid \in BuiltGrids : \A cell \in GridCells(grid) :
      Occupied(grid, cell[1], cell[2])
        <=> \E i \in DOMAIN chart.data : BarCovers(chart.data[i], cell[1], cell[2])

\* C14 (as stated): every cell in an even row and every cell in an even
\* column of the grid is free, also with bars that span several columns.
C14_Original ==
  chart.hasData =>
    \A grid \in BuiltGrids : \A cell \in GridCells(grid) :
      (cell[1] % 2 = 0 \/ cell[2] % 2 = 0) => ~Occupied(grid, cell[1], cell[2])

\* C14 (amended): every cell in an even row of the grid is free, and a cell
\* in an even column is occupied only in the row of a bar that spans the
\* columns on both sides of it (2*startIDX+1 < x < 2*endIDX+1).
C14_CorridorsFree ==
  chart.hasData =>
    \A grid \in BuiltGrids : \A cell \in GridCells(grid) :
      /\ cell[2] % 2 = 0 => ~Occupied(grid, cell[1], cell[2])
      /\ cell[1] % 2 = 0 /\ Occupied(grid, cell[1], cell[2]) =>
           \E i \in DOMAIN chart.data :
             /\ BarCovers(chart.data[i], cell[1], cell[2])
             /\ 2 * chart.data[i].startIDX.val + 1 < cell[1]
             /\ cell[1] < 2 * chart.data[i].endIDX.val + 1

\* The chart holds the grid built of it, with a bar of several columns on
\* the axis.
C14_Witness ==
  /\ GridIsBuilt
  /\ \E i \in DOMAIN chart.data :
       /\ chart.data[i].startIDX.kind = "number" /\ chart.data[i].endIDX.kind = "number"
       /\ chart.data[i].startIDX.val < chart.data[i].endIDX.val
       /\ Occupied(chart.pathfindingGrid, 2 * chart.data[i].startIDX.val + 2,
                   2 * chart.data[i].yIndex.val + 1)

\* ------------------------------------------------------ connecting lines

Abs(n) == IF n < 0 THEN -n ELSE n

\* The two ends of candidate k of the connector from bar `a` to bar `b`, in
\* grid cells: 1 right->left, 2 right->top, 3 bottom->left, 4 bottom->top.
EndsOf(a, b, k) ==
  LET right == <<2 * a.endIDX.val + 2, 2 * a.yIndex.val + 1>>
      bottom == <<a.startIDX.val + a.endIDX.val + 1, 2 * a.yIndex.val + 2>>
      left == <<2 * b.startIDX.val, 2 * b.yIndex.val + 1>>
      top == <<b.startIDX.val + b.endIDX.val + 1, 2 * b.yIndex.val>>
  IN << IF k \in {1, 2} THEN right ELSE bottom, IF k \in {1, 3} THEN left ELSE top >>

\* The fewest points a path of candidate k can have: one for each cell of a
\* walk along the rows and columns between its ends.
FewestPoints(a, b, k) ==
  LET ends == EndsOf(a, b, k)
  IN Abs(ends[1][1] - ends[2][1]) + Abs(ends[1][2] - ends[2][2]) + 1

\* The connectors on the canvas, after a render or a hover has drawn them.
Drawn == registered /\ chart.status = "ok" /\ chart.pending = "none" /\ chart.hasData

\* C15: each connector on the canvas was searched on the four candidates
\* right->left, right->top, bottom->left and bottom->top (a candidate with a
\* path joins those two anchors); the candidate drawn has a path, no
\* candidate with a path has fewer points, and no earlier candidate has as
\* few.
C15_FewestPointsEarliest ==
  Drawn =>
    \A line \in chart.canvas :
      /\ DOMAIN line.points = 1..4
      /\ \A k \in 1..4 :
           line.points[k] > 0 =>
             line.points[k] >= FewestPoints(chart.data[line.from], chart.data[line.to], k)
      /\ line.shortest # 0 =>
           /\ line.points[line.shortest] > 0
           /\ \A k \in 1..4 :
                line.points[k] > 0 =>
                  \/ line.points[line.shortest] < line.points[k]
                  \/ line.points[line.shortest] = line.points[k] /\ line.shortest <= k

\* Two connectors are drawn: one has candidates without a path, the other
\* has two candidates tied for the fewest points and a longer one.
C15_Witness ==
  /\ Drawn
  /\ \E line \in chart.canvas :
       line.shortest # 0 /\ \E k \in 1..4 : line.points[k] = 0
  /\ \E line \in chart.canvas :
       /\ line.shortest # 0
       /\ \E k \in 1..4 :
            k # line.shortest /\ line.points[k] = line.points[line.shortest]
       /\ \E k \in 1..4 : line.points[k] > line.points[line.shortest]

\* A render has run to its end and a connector of it found no path on any of
\* its four candidates.
NoPathAfterRender ==
  /\ registered /\ chart.status = "ok" /\ chart.pending = "none" /\ chart.shown
  /\ \E line \in chart.canvas : ~line.threw /\ line.shortest = 0

\* C16 (as stated): when a connector has no path on any of its four
\* candidates, the other connectors of the render are drawn, the promise of
\* the render is settled and the rendered notification is dispatched.
C16_Original ==
  NoPathAfterRender =>
    /\ \A line \in chart.canvas :
         (\E k \in 1..4 : line.points[k] > 0) => line.shortest # 0
    /\ chart.promise \in {"resolved", "rejected"}
    /\ chart.notified

\* C17: no path search changes the shared occupancy grid. After the
\* drawLineBetween calls of a render, however many, the grid of the chart is
\* cell for cell the one buildPathfindingGrid made, and none of its nodes
\* carries the marks of a search (which a later search would read).
C17_GridUntouched ==
  registered /\ chart.pending = "none" /\ chart.shown /\ chart.canvas # {} =>
    /\ ~chart.pathfindingGrid.searched
    /\ chart.pathfindingGrid \in BuiltGrids

\* A render has drawn two connectors, one after the other.
C17_Witness ==
  /\ registered /\ chart.pending = "none" /\ chart.shown
  /\ \E a, b \in chart.canvas : a # b /\ a.shortest # 0 /\ b.shortest # 0

\* ------------------------------------------------------ dragging

\* Every bar lies within the axis and within the rows of the chart.
WithinAxis(c) ==
  \A i \in DOMAIN c.data :
    LET bar == c.data[i]
    IN /\ bar.startIDX.kind = "number" /\ bar.endIDX.kind = "number"
       /\ bar.yIndex.kind = "number"
       /\ 0 <= bar.startIDX.val
       /\ bar.startIDX.val <= bar.endIDX.val
       /\ bar.endIDX.val <= c.columnsNumber - 1
       /\ bar.yIndex.val \in 0..(c.chartHeight - 1)

\* C18: after any sequence of pointerdown, pointermove, pointerup and
\* pointerleave events on a rendered chart whose bars lie within the axis at
\* first, every bar has 0 <= startIDX and endIDX <= columnsNumber-1, and its
\* row is in [0, rowCount-1].
C18_DragStaysWithinAxis ==
  registered /\ chart.mounted => WithinAxis(chart)

\* A drag has moved a bar of a chart within the axis up to the last column,
\* and one down to the first.
C18_Witness ==
  /\ chart.lastMove.bar # 0
  /\ WithinAxis(chart)
  /\ Snapshot(chart.data[chart.lastMove.bar]) = chart.lastMove.to
  /\ \/ /\ chart.lastMove.to.endIDX.val = chart.columnsNumber - 1
        /\ chart.lastMove.from.endIDX.val < chart.columnsNumber - 1
     \/ /\ chart.lastMove.to.startIDX.val = 0
        /\ chart.lastMove.from.startIDX.val > 0
  /\ chart.moving.startX \in {0, MaxPointer}

\* C19 (as stated): a move notification is dispatched exactly when a
\* pointermove of an active drag changes the start column of the bar; its
\* `from` holds the indices and calendar values of the bar before the change,
\* its `to` those after it, and to.endIDX - to.startIDX equals
\* from.endIDX - from.startIDX.
C19_Original ==
  [][LET b == chart.moving.bar
         dispatched == chart'.lastMove.count # chart.lastMove.count
     IN /\ dispatched => PointerMoves /\ chart.moving.pointerIsDown
        /\ PointerMoves /\ chart.moving.pointerIsDown =>
             (dispatched <=> chart'.data[b].startIDX # chart.data[b].startIDX)
        /\ dispatched =>
             /\ chart'.lastMove.from = Snapshot(chart.data[b])
             /\ chart'.lastMove.to = Snapshot(chart'.data[b])
             /\ Minus(chart'.lastMove.to.endIDX, chart'.lastMove.to.startIDX).kind = "number"
             /\ Minus(chart'.lastMove.to.endIDX, chart'.lastMove.to.startIDX)
                  = Minus(chart'.lastMove.from.endIDX, chart'.lastMove.from.startIDX)
    ]_vars

\* The last move was the first of its drag and nothing has changed the bar
\* since: the bar #movingBarData holds is the bar moved, it was at the place
\* of the pointerdown before the move, and it is where the move put it, in a
\* column of the axis.
MovedOnce(c) ==
  /\ c.lastMove.bar # 0
  /\ c.lastMove.bar = c.moving.bar
  /\ Times(c.lastMove.from.startIDX, c.columnWidth) = c.moving.startXBar
  /\ Snapshot(c.data[c.lastMove.bar]) = c.lastMove.to
  /\ c.lastMove.to.startIDX.kind = "number"
  /\ c.lastMove.to.startIDX.val \in 0..(c.columnsNumber - 1)

\* C20: after a drag has moved a bar to a new valid column, the revert() of
\* the notification gives the bar the startIDX, endIDX, start and end it had
\* before the drag started, and changes nothing else of the data.
C20_RevertRestores ==
  [][Revert /\ MovedOnce(chart) =>
       /\ Snapshot(chart'.data[chart.lastMove.bar]) = chart.lastMove.from
       /\ \A i \in DOMAIN chart.data :
            [chart'.data[i] EXCEPT !.startIDX = Undefined, !.endIDX = Undefined,
                                   !.start = Undefined, !.end = Undefined]
              = [chart.data[i] EXCEPT !.startIDX = Undefined, !.endIDX = Undefined,
                                      !.start = Undefined, !.end = Undefined]
       /\ \A i \in DOMAIN chart.data \ {chart.lastMove.bar} : chart'.data[i] = chart.data[i]
    ]_vars

\* A calendar bar that a drag has moved is back where it was: the revert()
\* of the notification has run.
C20_Witness ==
  /\ chart.lastMove.bar # 0
  /\ ~chart.mode.index
  /\ chart.lastMove.bar = chart.moving.bar
  /\ Snapshot(chart.data[chart.lastMove.bar]) = chart.lastMove.from
  /\ chart.lastMove.from.start.kind = "DateTime"
  /\ chart.lastMove.from.start # chart.lastMove.to.start
  /\ chart.lastMove.to.startIDX.kind = "number"

\* A bar without the four fields a move writes.
Unmoved(bar) ==
  [bar EXCEPT !.startIDX = Undefined, !.endIDX = Undefined,
              !.start = Undefined, !.end = Undefined]

SearchStep ==
  /\ \/ Settle(NoDetour)
     \/ \E bar \in 1..MaxBars : MouseEnter(bar, NoDetour)
     \/ \E bar \in 1..MaxBars : MouseLeave(bar, NoDetour)
  /\ chart'.canvas # {}

\* C22 (as stated): whenever a connector path search runs, the occupancy
\* grid it searches is the one buildPathfindingGrid makes of the data, the
\* indices, the rows and the columns of the chart at that moment, also after
\* setData, setPeriod or setOptions were called with render=false.
C22_Original ==
  [][SearchStep =>
       [chart'.pathfindingGrid EXCEPT !.searched = FALSE]
         \in {c.pathfindingGrid : c \in buildPathfindingGrid(chart')}
    ]_vars

\* ------------------------------------------------------ the rendered notification

\* C23 (as stated): when the rendered notification of a render() has been
\* delivered to the listeners, the completion of that render was observable
\* to the caller before: the promise is resolved and its continuation has
\* been able to run.
C23_Original ==
  registered /\ chart.notified => chart.promise = "resolved" /\ chart.reaction = "ran"

\* ------------------------------------------------------ explicit indices

\* C24 (as stated): in calendar mode a bar given with startIDX and endIDX
\* keeps these column indices, whatever its start and end, through setData
\* and through every later setPeriod and setOptions.
C24_Original ==
  registered /\ ~chart.mode.index =>
    \A i \in DOMAIN chart.data :
      /\ chart.data[i].startIDX = Num(chart.data[i].id - 1)
      /\ chart.data[i].endIDX = Num(chart.data[i].id)

\* ------------------------------------------------------ the drag session

\* The step changes startIDX or endIDX of a bar of the chart.
IndicesChange ==
  /\ registered
  /\ \E i \in DOMAIN chart.data \cap DOMAIN chart'.data :
       \/ chart'.data[i].startIDX # chart.data[i].startIDX
       \/ chart'.data[i].endIDX # chart.data[i].endIDX

\* C26: startIDX and endIDX of a bar change only in a pointermove received
\* while a drag is active (pointerIsDown, set by a pointerdown on a bar and
\* cleared by pointerup and pointerleave) or in a revert(); a pointermove
\* outside a drag, a pointerdown on no bar, pointerup and pointerleave change
\* no bar.
C26_OnlyActiveDragMoves ==
  [][/\ IndicesChange =>
          \/ PointerMoves /\ chart.moving.pointerIsDown /\ chart.moving.bar # 0
          \/ Revert
     /\ \/ PointerUp
        \/ PointerLeave
        \/ \E x \in Pointers : PointerDown(0, x)
        \/ PointerMoves /\ ~chart.moving.pointerIsDown
        => chart'.data = chart.data
    ]_vars

\* The pointer was released after a move, a pointermove has come after the
\* release, and the bar is where the move put it.
C26_Witness ==
  /\ chart.lastMove.bar # 0
  /\ chart.lastMove.bar = chart.moving.bar
  /\ ~chart.moving.pointerIsDown
  /\ chart.pending = "none" /\ chart.shown
  /\ Snapshot(chart.data[chart.lastMove.bar]) = chart.lastMove.to
  /\ chart.lastMove.to.startIDX.kind = "number"
  /\ chart.lastMove.to.startIDX # chart.lastMove.from.startIDX

\* C27 (as stated): the revert() of a move notification restores the bar the
\* notification was dispatched for and changes no other bar, whenever it is
\* called, also after a drag of another bar has started.
C27_Original ==
  [][Revert =>
       /\ Snapshot(chart'.data[chart.lastMove.bar]) = chart.lastMove.from
       /\ \A i \in DOMAIN chart.data \ {chart.lastMove.bar} : chart'.data[i] = chart.data[i]
    ]_vars

\* ------------------------------------------------------ failed creations

\* C29 (as stated): when Chart.get throws while it creates the instance of a
\* container, no instance is registered on the container afterwards.
C29_Original ==
  [][~registered /\ chart'.status = "threw" => ~registered']_vars

\* ------------------------------------------------------ anchors

\* The anchors the connector of `line` is searched between: right and bottom
\* of the source bar, left and top of the target bar.
AnchorsOf(line) ==
  LET from == getBarCoordinates(chart.data[line.from])
      to == getBarCoordinates(chart.data[line.to])
  IN {from.right, from.bottom, to.left, to.top}

\* C30: on a chart whose bars lie within the axis, each anchor of each
\* connector drawn has integer coordinates inside the grid built by
\* buildPathfindingGrid, on a free cell, and the connector has a candidate
\* with a path.
C30_AnchorsFree ==
  Drawn /\ chart.shown /\ WithinAxis(chart) =>
    \A line \in chart.canvas :
      /\ \A at \in AnchorsOf(line) :
           /\ at[1].kind = "number" /\ at[2].kind = "number"
           /\ <<at[1].val, at[2].val>> \in GridCells(chart.pathfindingGrid)
           /\ ~Occupied(chart.pathfindingGrid, at[1].val, at[2].val)
      /\ line.shortest # 0
      /\ line.points[line.shortest] > 0

\* A connector is drawn from a bar that ends on the last column, on the last
\* row, of a chart whose bars lie within the axis: its right anchor is on
\* the last column of the grid and its bottom anchor on the last row.
C30_Witness ==
  /\ Drawn /\ chart.shown /\ WithinAxis(chart)
  /\ \E line \in chart.canvas :
       /\ line.from # line.to
       /\ chart.data[line.from].endIDX.val = chart.columnsNumber - 1
       /\ chart.data[line.from].yIndex.val = Len(chart.data) - 1
       /\ chart.data[line.from].startIDX.val < chart.data[line.from].endIDX.val
       /\ line.shortest # 0

\* ------------------------------------------------------ options

\* C25 (as stated): after Chart.get or setOptions has processed the options,
\* customization.chart.bar.heightCoef is a number in (0, 1]; a value that is
\* no number of that interval has been replaced by the default 0.6.
C25_Original ==
  registered =>
    /\ chart.heightCoef.kind = "number"
    /\ chart.heightCoef.val \in 1..CoefUnit

\* C28 (as stated): creating or reconfiguring a chart changes nothing of
\* Chart.defaultOptions, so that a chart created later without overrides
\* gets the original defaults: the days mode and heightCoef 0.6.
C28_Original ==
  /\ defaultOptions.heightCoef = Num(BAR_HEIGHT_COEFFICIENT)
  /\ WithOptions(NewChart, defaultOptions).mode = ChartModeDEFAULTS.days

====
